---- MODULE Spec2Model ----
(***************************************************************************)
(* Model of the Maestro servo controller driver (package sc).              *)
(*                                                                         *)
(* The driver is synchronous: every public operation is one call that      *)
(* builds a frame, writes it to the port in one Write call and, for the    *)
(* reply-bearing commands, performs one Read.  The state of the program is *)
(* the Controller (its configuration and its servo table), the Servo       *)
(* objects allocated so far, and, to state what a call did, the record of  *)
(* the most recent call: its arguments, its results, the frames it handed  *)
(* to port.Write and the Read calls it made.                               *)
(***************************************************************************)
EXTENDS Integers, Sequences, FiniteSets, TLC

VARIABLES
    created,    \* NewController has returned a Controller
    compact,    \* Controller.compact
    device,     \* Controller.device (uint8)
    crc,        \* Controller.crc
    servo,      \* Controller.servo: channel -> handle of a Servo, 0 is nil
    heap,       \* the Servo objects allocated so far; a handle is an index
    call,       \* the most recent call and what it did
    pure        \* inputs and result of the most recent pure-function evaluation

vars == <<created, compact, device, crc, servo, heap, call, pure>>

-----------------------------------------------------------------------------
(* Program constants *)

cmdSetTarget == 132
cmdSetSpeed == 135
cmdSetAcceleration == 137
cmdSetPWM == 138
cmdGetPosition == 144
cmdGetMovingState == 147
cmdSetMultipleTargets == 159
cmdGetErrors == 161
cmdGoHome == 162
cmdStopScript == 164
cmdRestartScript == 167
cmdRestartScriptParms == 168
cmdGetScriptStatus == 174

uSec == 4
maxTarget == 16383
maxServos == 24
crc7Poly == 145

-----------------------------------------------------------------------------
(* Bounds and input sets *)

MaxObjs == 2        \* Servo objects allocated in one session
MaxLen == 2         \* length of the targets slice given to SetTargets

\* the configurations given to NewController: <<Compact, DeviceNumber, Crc>>
Configs == {<<TRUE, 12, FALSE>>, <<FALSE, 12, TRUE>>,
            <<FALSE, 200, FALSE>>, <<TRUE, 200, TRUE>>}
ChanInputs == {0, 1, 23, 24, 255}
StartInputs == {0, 23, 255}
TargetInputs == {1000, 2000, 5000, 20000}
\* <<min, max>> given to SetLimits
LimitPairs == {<<2000, 2000>>, <<2000, 1000>>, <<1000, 2000>>,
               <<2000, 16384>>, <<16384, 1000>>, <<16384, 16384>>, <<65535, 16384>>}
ValueInputs == {200, 20000}
PWMInputs == {<<200, 20000>>, <<16383, 0>>}
SubInputs == {1, 200}
ByteInputs == {0, 129}

RECURSIVE SeqsUpTo(_, _)
SeqsUpTo(S, n) ==
    IF n = 0 THEN {<<>>}
    ELSE LET shorter == SeqsUpTo(S, n - 1)
         IN shorter \cup {Append(q, x) : q \in {p \in shorter : Len(p) = n - 1}, x \in S}

TargetSeqs == SeqsUpTo(TargetInputs, MaxLen)

-----------------------------------------------------------------------------
(* Machine arithmetic *)

RECURSIVE Xor(_, _)
Xor(a, b) ==
    IF a = 0 THEN b
    ELSE IF b = 0 THEN a
    ELSE (((a % 2) + (b % 2)) % 2) + 2 * Xor(a \div 2, b \div 2)

RECURSIVE BitAnd(_, _)
BitAnd(a, b) ==
    IF a = 0 \/ b = 0 THEN 0
    ELSE ((a % 2) * (b % 2)) + 2 * BitAnd(a \div 2, b \div 2)

Shl16(x, k) == (x * (2 ^ k)) % 65536
Shr(x, k) == x \div (2 ^ k)

-----------------------------------------------------------------------------
(* crc7 *)

RECURSIVE crcRounds_shiftFirst(_, _)
crcRounds_shiftFirst(val, j) ==
    IF j = 8 THEN val
    ELSE LET v == Shr(val, 1)
         IN crcRounds_shiftFirst(IF BitAnd(val, 1) # 0 THEN Xor(v, crc7Poly) ELSE v, j + 1)

RECURSIVE crcRounds(_, _)
crcRounds(val, j) ==
    IF j = 8 THEN val
    ELSE LET v == IF BitAnd(val, 1) # 0 THEN Xor(val, crc7Poly) ELSE val
         IN crcRounds(Shr(v, 1), j + 1)

getCRCForByte(val) == crcRounds(val, 0)

crcTable == [i \in 0..255 |-> getCRCForByte(i)]

RECURSIVE crc7(_, _)
crc7(c, buf) ==
    IF buf = <<>> THEN c
    ELSE crc7(crcTable[Xor(c, Head(buf))], Tail(buf))

-----------------------------------------------------------------------------
(* Value codec *)

lo_unmasked(x) == x % 256

lo(x) == BitAnd(x, 127)

hi_unmasked(x) == Shr(x, 7) % 256

hi(x) == BitAnd(Shr(x, 7), 127)

-----------------------------------------------------------------------------
(* Errors: "" is nil *)

NoErr == ""
WriteErr == "write error"
ReadErr == "read error"
ShortRead == "short read"
BadChannel == "bad servo channel"
TooLow == "target too low"
TooHigh == "target too high"

-----------------------------------------------------------------------------
(* The record of a call *)

NoCall ==
    [op |-> "none", h |-> 0, args |-> <<>>, targets |-> <<>>, err |-> NoErr,
     errch |-> -1, val |-> 0, flag |-> FALSE, wr |-> <<>>, rd |-> <<>>]

NoPure ==
    [fn |-> "none", in |-> <<>>, clamp |-> FALSE, val |-> 0, out |-> <<>>, err |-> NoErr]

\* what port.Read(buf) may do with a buffer of len bytes: n bytes stored, the
\* rest of the (zeroed) buffer untouched, and an error or none
ReadBufs(len, n) ==
    {q \in [1..len -> ByteInputs \cup {0}] : \A i \in 1..len : i > n => q[i] = 0}

Reads(len) ==
    UNION {{[len |-> len, n |-> n, err |-> FALSE, buf |-> b] : b \in ReadBufs(len, n)} :
              n \in 0..len}
    \cup {[len |-> len, n |-> 0, err |-> TRUE, buf |-> [i \in 1..len |-> 0]],
          [len |-> len, n |-> len, err |-> TRUE, buf |-> [i \in 1..len |-> 129]]}

-----------------------------------------------------------------------------
(* GetError *)

errorStrings ==
    <<"serial signal error", "serial overrun error", "serial buffer full",
      "serial crc error", "serial protocol error", "serial timeout",
      "script stack error", "script call stack error",
      "script program counter error">>

\* strings.Join
RECURSIVE Join(_, _)
Join(s, sep) ==
    IF Len(s) = 0 THEN ""
    ELSE IF Len(s) = 1 THEN s[1]
    ELSE s[1] \o sep \o Join(Tail(s), sep)

RECURSIVE GetErrorLoop_descending(_, _, _)
GetErrorLoop_descending(val, i, s) ==
    IF i >= Len(errorStrings) THEN s
    ELSE GetErrorLoop_descending(val, i + 1,
            IF BitAnd(val, 2 ^ i) # 0 THEN <<errorStrings[i + 1]>> \o s ELSE s)

\* the loop of GetError from index i (0-based) on, s being the names so far
RECURSIVE GetErrorLoop(_, _, _)
GetErrorLoop(val, i, s) ==
    IF i >= Len(errorStrings) THEN s
    ELSE GetErrorLoop(val, i + 1,
            IF BitAnd(val, 2 ^ i) # 0 THEN Append(s, errorStrings[i + 1]) ELSE s)

\* the text of the error GetError returns, "" for nil
GetError(val) ==
    LET s == GetErrorLoop(val, 0, <<>>)
    IN IF Len(s) = 0 THEN NoErr ELSE Join(s, ",")

-----------------------------------------------------------------------------
(* Controller *)

cmdPreamble_unmasked(command) ==
    IF compact THEN <<command>>
    ELSE <<170, device, command>>

cmdPreamble(command) ==
    IF compact THEN <<command>>
    ELSE <<170, device, BitAnd(command, 127)>>

cmdWrite_seedLen(cmd, werr) ==
    [frame |-> IF crc THEN Append(cmd, BitAnd(crc7(Len(cmd), cmd), 127)) ELSE cmd,
     err |-> IF werr THEN WriteErr ELSE NoErr]

\* cmdWrite: the bytes handed to port.Write and the error returned, for a
\* port whose Write fails (werr) or not
cmdWrite(cmd, werr) ==
    [frame |-> IF crc THEN Append(cmd, BitAnd(crc7(0, cmd), 127)) ELSE cmd,
     err |-> IF werr THEN WriteErr ELSE NoErr]

rspRead_noShort(r) == IF r.err THEN ReadErr ELSE NoErr

\* rspRead's result for what port.Read did
rspRead(r) ==
    IF r.err THEN ReadErr
    ELSE IF r.n # r.len THEN ShortRead
    ELSE NoErr

\* calls are synchronous and sequential: a call is made when the previous one
\* has returned
Idle == call.op = "none"
Ready == created /\ Idle

Init ==
    /\ created = FALSE
    /\ \E cfg \in Configs :
        /\ compact = cfg[1]
        /\ device = cfg[2]
        /\ crc = cfg[3]
    /\ servo = [ch \in 0..(maxServos - 1) |-> 0]
    /\ heap = <<>>
    /\ call = NoCall
    /\ pure = NoPure

NewController ==
    /\ ~created
    /\ Idle
    /\ \E werr \in BOOLEAN :
        /\ created' = ~werr
        /\ call' = [NoCall EXCEPT !.op = "NewController",
                                  !.wr = << <<170>> >>,
                                  !.err = IF werr THEN WriteErr ELSE NoErr]
    /\ UNCHANGED <<compact, device, crc, servo, heap, pure>>

GetMovingState ==
    /\ Ready
    /\ \E werr \in BOOLEAN, r \in Reads(1) :
        LET w == cmdWrite(cmdPreamble(cmdGetMovingState), werr)
            c0 == [NoCall EXCEPT !.op = "GetMovingState", !.wr = <<w.frame>>]
            c1 == [c0 EXCEPT !.rd = <<r>>]
        IN call' = IF w.err # NoErr THEN [c0 EXCEPT !.err = w.err]
                   ELSE IF rspRead(r) # NoErr THEN [c1 EXCEPT !.err = rspRead(r)]
                   ELSE [c1 EXCEPT !.flag = (r.buf[1] # 0)]
    /\ UNCHANGED <<created, compact, device, crc, servo, heap, pure>>

\* the value GetErrors decodes from its two reply bytes
GetErrorsValue(buf) ==
    (BitAnd(buf[1], 127) + Shl16(BitAnd(buf[2], 127), 8)) % 65536

GetErrors_readAnyway ==
    /\ Ready
    /\ \E werr \in BOOLEAN, r \in Reads(2) :
        LET w == cmdWrite(cmdPreamble(cmdGetErrors), werr)
            c1 == [NoCall EXCEPT !.op = "GetErrors", !.wr = <<w.frame>>, !.rd = <<r>>]
        IN call' = IF w.err # NoErr THEN [c1 EXCEPT !.err = w.err]
                   ELSE IF rspRead(r) # NoErr THEN [c1 EXCEPT !.err = rspRead(r)]
                   ELSE [c1 EXCEPT !.val = GetErrorsValue(r.buf)]
    /\ UNCHANGED <<created, compact, device, crc, servo, heap, pure>>

GetErrors ==
    /\ Ready
    /\ \E werr \in BOOLEAN, r \in Reads(2) :
        LET w == cmdWrite(cmdPreamble(cmdGetErrors), werr)
            c0 == [NoCall EXCEPT !.op = "GetErrors", !.wr = <<w.frame>>]
            c1 == [c0 EXCEPT !.rd = <<r>>]
        IN call' = IF w.err # NoErr THEN [c0 EXCEPT !.err = w.err]
                   ELSE IF rspRead(r) # NoErr THEN [c1 EXCEPT !.err = rspRead(r)]
                   ELSE [c1 EXCEPT !.val = GetErrorsValue(r.buf)]
    /\ UNCHANGED <<created, compact, device, crc, servo, heap, pure>>

GoHome ==
    /\ Ready
    /\ \E werr \in BOOLEAN :
        LET w == cmdWrite(cmdPreamble(cmdGoHome), werr)
        IN call' = [NoCall EXCEPT !.op = "GoHome", !.wr = <<w.frame>>, !.err = w.err]
    /\ UNCHANGED <<created, compact, device, crc, servo, heap, pure>>

StopScript ==
    /\ Ready
    /\ \E werr \in BOOLEAN :
        LET w == cmdWrite(cmdPreamble(cmdStopScript), werr)
        IN call' = [NoCall EXCEPT !.op = "StopScript", !.wr = <<w.frame>>, !.err = w.err]
    /\ UNCHANGED <<created, compact, device, crc, servo, heap, pure>>

RestartScript(subroutine) ==
    /\ Ready
    /\ \E werr \in BOOLEAN :
        LET cmd == Append(cmdPreamble(cmdRestartScript), subroutine)
            w == cmdWrite(cmd, werr)
        IN call' = [NoCall EXCEPT !.op = "RestartScript", !.args = <<subroutine>>,
                                  !.wr = <<w.frame>>, !.err = w.err]
    /\ UNCHANGED <<created, compact, device, crc, servo, heap, pure>>

RestartScriptParms(subroutine, val) ==
    /\ Ready
    /\ \E werr \in BOOLEAN :
        LET cmd == cmdPreamble(cmdRestartScriptParms) \o <<subroutine, lo(val), hi(val)>>
            w == cmdWrite(cmd, werr)
        IN call' = [NoCall EXCEPT !.op = "RestartScriptParms",
                                  !.args = <<subroutine, val>>,
                                  !.wr = <<w.frame>>, !.err = w.err]
    /\ UNCHANGED <<created, compact, device, crc, servo, heap, pure>>

GetScriptStatus ==
    /\ Ready
    /\ \E werr \in BOOLEAN, r \in Reads(1) :
        LET w == cmdWrite(cmdPreamble(cmdGetScriptStatus), werr)
            c0 == [NoCall EXCEPT !.op = "GetScriptStatus", !.wr = <<w.frame>>]
            c1 == [c0 EXCEPT !.rd = <<r>>]
        IN call' = IF w.err # NoErr THEN [c0 EXCEPT !.err = w.err]
                   ELSE IF rspRead(r) # NoErr THEN [c1 EXCEPT !.err = rspRead(r)]
                   ELSE [c1 EXCEPT !.flag = (r.buf[1] = 0)]
    /\ UNCHANGED <<created, compact, device, crc, servo, heap, pure>>

-----------------------------------------------------------------------------
(* Servo *)

\* a Servo object; its ctrl field always points to the one Controller
NewServoObject(channel) ==
    [channel |-> channel, min |-> 500 * uSec, max |-> 2500 * uSec, clamp |-> FALSE]

Handles == 1..Len(heap)

servoCmdPreamble_noChannel(s, command) ==
    IF compact THEN <<command>>
    ELSE <<170, device, BitAnd(command, 127)>>

servoCmdPreamble(s, command) ==
    IF compact THEN <<command, s.channel>>
    ELSE <<170, device, BitAnd(command, 127), s.channel>>

checkTarget_maxFirst(s, target) ==
    IF s.clamp
    THEN IF target > s.max THEN [val |-> s.max, err |-> NoErr]
         ELSE IF target < s.min THEN [val |-> s.min, err |-> NoErr]
         ELSE [val |-> target, err |-> NoErr]
    ELSE IF target > s.max THEN [val |-> s.max, err |-> TooHigh]
         ELSE IF target < s.min THEN [val |-> s.min, err |-> TooLow]
         ELSE [val |-> target, err |-> NoErr]

checkTarget_noHigh(s, target) ==
    IF s.clamp
    THEN IF target < s.min THEN [val |-> s.min, err |-> NoErr]
         ELSE IF target > s.max THEN [val |-> s.max, err |-> NoErr]
         ELSE [val |-> target, err |-> NoErr]
    ELSE IF target < s.min THEN [val |-> s.min, err |-> TooLow]
         ELSE [val |-> target, err |-> NoErr]

\* checkTarget: the value and the error it returns
checkTarget(s, target) ==
    IF s.clamp
    THEN IF target < s.min THEN [val |-> s.min, err |-> NoErr]
         ELSE IF target > s.max THEN [val |-> s.max, err |-> NoErr]
         ELSE [val |-> target, err |-> NoErr]
    ELSE IF target < s.min THEN [val |-> s.min, err |-> TooLow]
         ELSE IF target > s.max THEN [val |-> s.max, err |-> TooHigh]
         ELSE [val |-> target, err |-> NoErr]

SetLimitsCheck_noRange(min, max) ==
    IF max > min THEN "max > min" ELSE NoErr

SetLimitsCheck_flipped(min, max) ==
    IF max < min THEN "max < min"
    ELSE IF min > maxTarget THEN "min > 16383"
    ELSE IF max > maxTarget THEN "max > 16383"
    ELSE NoErr

\* the checks of SetLimits, in the order of the code
SetLimitsCheck(min, max) ==
    IF max > min THEN "max > min"
    ELSE IF min > maxTarget THEN "min > 16383"
    ELSE IF max > maxTarget THEN "max > 16383"
    ELSE NoErr

NewServo_offByOne(channel) ==
    /\ Ready
    /\ channel > maxServos \/ Len(heap) < MaxObjs
    /\ IF channel > maxServos
       THEN /\ call' = [NoCall EXCEPT !.op = "NewServo", !.args = <<channel>>,
                                      !.err = BadChannel, !.errch = channel]
            /\ UNCHANGED <<servo, heap>>
       ELSE /\ heap' = Append(heap, NewServoObject(channel))
            /\ servo' = [c \in DOMAIN servo |->
                            IF c = channel THEN Len(heap) + 1 ELSE servo[c]]
            /\ call' = [NoCall EXCEPT !.op = "NewServo", !.args = <<channel>>,
                                      !.h = Len(heap) + 1]
    /\ UNCHANGED <<created, compact, device, crc, pure>>

NewServo(channel) ==
    /\ Ready
    /\ channel >= maxServos \/ Len(heap) < MaxObjs
    /\ IF channel >= maxServos
       THEN /\ call' = [NoCall EXCEPT !.op = "NewServo", !.args = <<channel>>,
                                      !.err = BadChannel, !.errch = channel]
            /\ UNCHANGED <<servo, heap>>
       ELSE /\ heap' = Append(heap, NewServoObject(channel))
            /\ servo' = [servo EXCEPT ![channel] = Len(heap) + 1]
            /\ call' = [NoCall EXCEPT !.op = "NewServo", !.args = <<channel>>,
                                      !.h = Len(heap) + 1]
    /\ UNCHANGED <<created, compact, device, crc, pure>>

\* the loop of SetTargets from index i (1-based) on, cmd being the frame so far:
\* the error of the first channel that fails, or the finished frame
RECURSIVE SetTargetsLoop_ignoreErr(_, _, _, _)
SetTargetsLoop_ignoreErr(channel, targets, i, cmd) ==
    IF i > Len(targets) THEN [err |-> NoErr, errch |-> -1, cmd |-> cmd]
    ELSE LET ch == (channel + ((i - 1) % 256)) % 256
         IN IF ch >= maxServos \/ servo[ch] = 0
            THEN [err |-> BadChannel, errch |-> ch, cmd |-> cmd]
            ELSE LET r == checkTarget(heap[servo[ch]], targets[i])
                 IN SetTargetsLoop_ignoreErr(channel, targets, i + 1,
                                             cmd \o <<lo(r.val), hi(r.val)>>)

RECURSIVE SetTargetsLoop(_, _, _, _)
SetTargetsLoop(channel, targets, i, cmd) ==
    IF i > Len(targets) THEN [err |-> NoErr, errch |-> -1, cmd |-> cmd]
    ELSE LET ch == (channel + ((i - 1) % 256)) % 256
         IN IF ch >= maxServos \/ servo[ch] = 0
            THEN [err |-> BadChannel, errch |-> ch, cmd |-> cmd]
            ELSE LET r == checkTarget(heap[servo[ch]], targets[i])
                 IN IF r.err # NoErr
                    THEN [err |-> r.err, errch |-> ch, cmd |-> cmd]
                    ELSE SetTargetsLoop(channel, targets, i + 1,
                                        cmd \o <<lo(r.val), hi(r.val)>>)

SetTargets_swapped(channel, targets) ==
    /\ Ready
    /\ LET c0 == [NoCall EXCEPT !.op = "SetTargets", !.args = <<channel>>,
                                !.targets = targets]
           cmd == cmdPreamble(cmdSetMultipleTargets)
                      \o <<channel, Len(targets) % 256>>
           l == SetTargetsLoop(channel, targets, 1, cmd)
       IN IF Len(targets) = 0 THEN call' = c0
          ELSE IF l.err # NoErr
          THEN call' = [c0 EXCEPT !.err = l.err, !.errch = l.errch]
          ELSE \E werr \in BOOLEAN :
                  LET w == cmdWrite(l.cmd, werr)
                  IN call' = [c0 EXCEPT !.wr = <<w.frame>>, !.err = w.err]
    /\ UNCHANGED <<created, compact, device, crc, servo, heap, pure>>

SetTargets_noEmptyCheck(channel, targets) ==
    /\ Ready
    /\ LET c0 == [NoCall EXCEPT !.op = "SetTargets", !.args = <<channel>>,
                                !.targets = targets]
           cmd == cmdPreamble(cmdSetMultipleTargets)
                      \o <<Len(targets) % 256, channel>>
           l == SetTargetsLoop(channel, targets, 1, cmd)
       IN IF l.err # NoErr
          THEN call' = [c0 EXCEPT !.err = l.err, !.errch = l.errch]
          ELSE \E werr \in BOOLEAN :
                  LET w == cmdWrite(l.cmd, werr)
                  IN call' = [c0 EXCEPT !.wr = <<w.frame>>, !.err = w.err]
    /\ UNCHANGED <<created, compact, device, crc, servo, heap, pure>>

SetTargets(channel, targets) ==
    /\ Ready
    /\ LET c0 == [NoCall EXCEPT !.op = "SetTargets", !.args = <<channel>>,
                                !.targets = targets]
           cmd == cmdPreamble(cmdSetMultipleTargets)
                      \o <<Len(targets) % 256, channel>>
           l == SetTargetsLoop(channel, targets, 1, cmd)
       IN IF Len(targets) = 0 THEN call' = c0
          ELSE IF l.err # NoErr
          THEN call' = [c0 EXCEPT !.err = l.err, !.errch = l.errch]
          ELSE \E werr \in BOOLEAN :
                  LET w == cmdWrite(l.cmd, werr)
                  IN call' = [c0 EXCEPT !.wr = <<w.frame>>, !.err = w.err]
    /\ UNCHANGED <<created, compact, device, crc, servo, heap, pure>>

SetLimits_storeFirst(h, min, max) ==
    /\ Ready
    /\ h \in Handles
    /\ call' = [NoCall EXCEPT !.op = "SetLimits", !.h = h,
                              !.args = <<min, max>>, !.err = SetLimitsCheck(min, max)]
    /\ heap' = [heap EXCEPT ![h].min = min, ![h].max = max]
    /\ UNCHANGED <<created, compact, device, crc, servo, pure>>

SetLimits_registered(h, min, max) ==
    /\ Ready
    /\ h \in Handles
    /\ LET e == SetLimitsCheck(min, max)
           g == servo[heap[h].channel]
       IN /\ call' = [NoCall EXCEPT !.op = "SetLimits", !.h = h,
                                    !.args = <<min, max>>, !.err = e]
          /\ heap' = IF e # NoErr THEN heap
                     ELSE [heap EXCEPT ![g].min = min, ![g].max = max]
    /\ UNCHANGED <<created, compact, device, crc, servo, pure>>

SetLimits(h, min, max) ==
    /\ Ready
    /\ h \in Handles
    /\ LET e == SetLimitsCheck(min, max)
       IN /\ call' = [NoCall EXCEPT !.op = "SetLimits", !.h = h,
                                    !.args = <<min, max>>, !.err = e]
          /\ heap' = IF e # NoErr THEN heap
                     ELSE [heap EXCEPT ![h].min = min, ![h].max = max]
    /\ UNCHANGED <<created, compact, device, crc, servo, pure>>

SetTarget(h, target) ==
    /\ Ready
    /\ h \in Handles
    /\ LET c0 == [NoCall EXCEPT !.op = "SetTarget", !.h = h, !.args = <<target>>]
           r == checkTarget(heap[h], target)
           cmd == servoCmdPreamble(heap[h], cmdSetTarget) \o <<lo(r.val), hi(r.val)>>
       IN IF r.err # NoErr THEN call' = [c0 EXCEPT !.err = r.err]
          ELSE \E werr \in BOOLEAN :
                  LET w == cmdWrite(cmd, werr)
                  IN call' = [c0 EXCEPT !.wr = <<w.frame>>, !.err = w.err]
    /\ UNCHANGED <<created, compact, device, crc, servo, heap, pure>>

SetSpeed(h, speed) ==
    /\ Ready
    /\ h \in Handles
    /\ \E werr \in BOOLEAN :
        LET cmd == servoCmdPreamble(heap[h], cmdSetSpeed) \o <<lo(speed), hi(speed)>>
            w == cmdWrite(cmd, werr)
        IN call' = [NoCall EXCEPT !.op = "SetSpeed", !.h = h, !.args = <<speed>>,
                                  !.wr = <<w.frame>>, !.err = w.err]
    /\ UNCHANGED <<created, compact, device, crc, servo, heap, pure>>

SetAcceleration(h, acceleration) ==
    /\ Ready
    /\ h \in Handles
    /\ \E werr \in BOOLEAN :
        LET cmd == servoCmdPreamble(heap[h], cmdSetAcceleration)
                       \o <<lo(acceleration), hi(acceleration)>>
            w == cmdWrite(cmd, werr)
        IN call' = [NoCall EXCEPT !.op = "SetAcceleration", !.h = h,
                                  !.args = <<acceleration>>,
                                  !.wr = <<w.frame>>, !.err = w.err]
    /\ UNCHANGED <<created, compact, device, crc, servo, heap, pure>>

SetPWM(h, ontime, period) ==
    /\ Ready
    /\ h \in Handles
    /\ \E werr \in BOOLEAN :
        LET cmd == servoCmdPreamble(heap[h], cmdSetPWM)
                       \o <<lo(ontime), hi(ontime), lo(period), hi(period)>>
            w == cmdWrite(cmd, werr)
        IN call' = [NoCall EXCEPT !.op = "SetPWM", !.h = h, !.args = <<ontime, period>>,
                                  !.wr = <<w.frame>>, !.err = w.err]
    /\ UNCHANGED <<created, compact, device, crc, servo, heap, pure>>

\* the value GetPosition decodes from its two reply bytes
GetPositionValue(buf) == (buf[1] + Shl16(buf[2], 8)) % 65536

GetPosition(h) ==
    /\ Ready
    /\ h \in Handles
    /\ \E werr \in BOOLEAN, r \in Reads(2) :
        LET w == cmdWrite(servoCmdPreamble(heap[h], cmdGetPosition), werr)
            c0 == [NoCall EXCEPT !.op = "GetPosition", !.h = h, !.wr = <<w.frame>>]
            c1 == [c0 EXCEPT !.rd = <<r>>]
        IN call' = IF w.err # NoErr THEN [c0 EXCEPT !.err = w.err]
                   ELSE IF rspRead(r) # NoErr THEN [c1 EXCEPT !.err = rspRead(r)]
                   ELSE [c1 EXCEPT !.val = GetPositionValue(r.buf)]
    /\ UNCHANGED <<created, compact, device, crc, servo, heap, pure>>

-----------------------------------------------------------------------------
(* The driver under every sequence of calls *)

\* the call returns to its caller, which is then free to make the next one
Return ==
    /\ ~Idle
    /\ call' = NoCall
    /\ UNCHANGED <<created, compact, device, crc, servo, heap, pure>>

Next ==
    \/ NewController
    \/ Return
    \/ GetMovingState
    \/ GetErrors
    \/ GoHome
    \/ StopScript
    \/ \E sub \in SubInputs : RestartScript(sub)
    \/ \E sub \in SubInputs, v \in ValueInputs : RestartScriptParms(sub, v)
    \/ GetScriptStatus
    \/ \E ch \in StartInputs, t \in TargetSeqs : SetTargets(ch, t)
    \/ \E ch \in ChanInputs : NewServo(ch)
    \/ \E h \in 1..MaxObjs, p \in LimitPairs : SetLimits(h, p[1], p[2])
    \/ \E h \in 1..MaxObjs, t \in TargetInputs : SetTarget(h, t)
    \/ \E h \in 1..MaxObjs, v \in ValueInputs : SetSpeed(h, v)
    \/ \E h \in 1..MaxObjs, v \in ValueInputs : SetAcceleration(h, v)
    \/ \E h \in 1..MaxObjs, p \in PWMInputs : SetPWM(h, p[1], p[2])
    \/ \E h \in 1..MaxObjs : GetPosition(h)

Spec == Init /\ [][Next]_vars

-----------------------------------------------------------------------------
(* The pure functions of the package, applied to inputs of the caller's choice *)

PureBounds == {0, 2000, 10000, 16383}
PureTargets == {0, 1000, 2000, 5000, 10000, 20000, 65535}

EvalCheckTarget ==
    \E min \in PureBounds, max \in PureBounds, clamp \in BOOLEAN, target \in PureTargets :
        LET r == checkTarget([channel |-> 0, min |-> min, max |-> max, clamp |-> clamp],
                             target)
        IN /\ pure' = [NoPure EXCEPT !.fn = "checkTarget", !.in = <<min, max, target>>,
                                     !.clamp = clamp, !.val = r.val, !.err = r.err]
           /\ UNCHANGED <<created, compact, device, crc, servo, heap, call>>

PureBitmaps == {0, 1, 2, 3, 128, 256, 341, 511, 512, 513, 32768, 65024, 65535}

EvalGetError ==
    \E val \in PureBitmaps :
        /\ pure' = [NoPure EXCEPT !.fn = "GetError", !.in = <<val>>, !.err = GetError(val)]
        /\ UNCHANGED <<created, compact, device, crc, servo, heap, call>>

PureValues ==
    {0, 1, 127, 128, 129, 255, 256, 5000, 16256, 16383, 16384, 16385, 20000,
     32767, 32768, 65535}

EvalLoHi ==
    \E v \in PureValues :
        /\ pure' = [NoPure EXCEPT !.fn = "lohi", !.in = <<v>>, !.out = <<lo(v), hi(v)>>]
        /\ UNCHANGED <<created, compact, device, crc, servo, heap, call>>

MaxBytes == 2

PureSeeds == {0, 85, 255}

PureBytes == {0, 1, 131, 255}

EvalCrc7 ==
    \E c \in PureSeeds, buf \in SeqsUpTo(PureBytes, MaxBytes) :
        /\ pure' = [NoPure EXCEPT !.fn = "crc7", !.in = <<c>> \o buf, !.val = crc7(c, buf)]
        /\ UNCHANGED <<created, compact, device, crc, servo, heap, call>>

NextPure ==
    \/ EvalCheckTarget
    \/ EvalGetError
    \/ EvalLoHi
    \/ EvalCrc7

SpecPure == Init /\ [][NextPure]_vars

-----------------------------------------------------------------------------
(* Properties *)

\* the frames the most recent call handed to port.Write
Written == {call.wr[k] : k \in 1..Len(call.wr)}

\* index of the opcode byte in a frame
OpIndex == IF compact THEN 1 ELSE 3

\* SetTargets(channel, targets) has an index whose channel is out of range,
\* unregistered, or whose value its Servo rejects
C1_BadIndex(channel, targets) ==
    \E i \in 1..Len(targets) :
        LET ch == channel + (i - 1)
        IN \/ ch >= 24
           \/ servo[ch] = 0
           \/ checkTarget(heap[servo[ch]], targets[i]).err # NoErr

\* C1: a SetTargets call with non-empty values in which some index names a
\* channel >= 24, an unregistered channel or a value its Servo rejects returns
\* an error and makes no write (and no read) on the port.
C1_BatchAtomic ==
    (call.op = "SetTargets" /\ call.targets # <<>>
        /\ C1_BadIndex(call.args[1], call.targets))
    => (call.err # NoErr /\ call.wr = <<>> /\ call.rd = <<>>)

\* a two-value batch whose first value passed and whose second channel failed
C1_Witness ==
    /\ call.op = "SetTargets"
    /\ Len(call.targets) = 2
    /\ call.args[1] < 24
    /\ servo[call.args[1]] # 0
    /\ checkTarget(heap[servo[call.args[1]]], call.targets[1]).err = NoErr
    /\ C1_BadIndex(call.args[1], call.targets)
    /\ call.err # NoErr
    /\ call.wr = <<>>

\* C2 as stated: every byte of every frame a command writes, the checksum
\* byte apart, has its top bit clear.
C2_AllBytesClean ==
    call.op # "NewController"
    => \A f \in Written : \A i \in 1..Len(f) : (crc /\ i = Len(f)) \/ f[i] < 128

\* C2, amended: the first byte of every written frame (the 0xAA sync byte, or
\* the opcode in compact mode) has its top bit set; every later byte has it
\* clear, except the device number of an addressed frame and the subroutine
\* byte of RestartScript and RestartScriptParms, which are written as given.
C2_DataBytesClean ==
    \A f \in Written :
        /\ f[1] >= 128
        /\ \A i \in 2..Len(f) :
              \/ f[i] < 128
              \/ (~compact /\ i = 2 /\ f[i] = device)
              \/ (call.op \in {"RestartScript", "RestartScriptParms"}
                     /\ i = OpIndex + 1 /\ f[i] = call.args[1])

\* a value above 14 bits was encoded into a frame
C2_Witness ==
    /\ call.op = "SetSpeed"
    /\ call.args[1] > maxTarget
    /\ Len(call.wr) = 1
    /\ ~compact /\ crc

\* C3 as stated: GetErrors returns (b0 & 0x7F) + ((b1 & 0x7F) << 7).
C3_SevenBitReassembly ==
    (call.op = "GetErrors" /\ call.err = NoErr)
    => LET buf == call.rd[1].buf
       IN call.val = (buf[1] % 128) + ((buf[2] % 128) * 128)

\* C4: every Servo's min and max are at most 0x3FFF, so every target that
\* SetTarget or SetTargets writes is in 0..0x3FFF and its low/high byte pair
\* decodes to the value that passed checkTarget.
C4_TargetsFit14Bits ==
    /\ \A h \in Handles : heap[h].min <= 16383 /\ heap[h].max <= 16383
    /\ (call.op = "SetTarget" /\ call.wr # <<>>)
       => LET f == call.wr[1]
              r == checkTarget(heap[call.h], call.args[1])
              v == f[OpIndex + 2] + (f[OpIndex + 3] * 128)
          IN r.err = NoErr /\ v = r.val /\ v = call.args[1] /\ v \in 0..16383
    /\ (call.op = "SetTargets" /\ call.wr # <<>>)
       => \A i \in 1..Len(call.targets) :
             LET f == call.wr[1]
                 r == checkTarget(heap[servo[call.args[1] + i - 1]], call.targets[i])
                 v == f[OpIndex + 1 + (2 * i)] + (f[OpIndex + 2 + (2 * i)] * 128)
             IN r.err = NoErr /\ v = r.val /\ v = call.targets[i] /\ v \in 0..16383

\* a target written by a Servo whose limits SetLimits has changed
C4_Witness ==
    /\ call.op = "SetTarget"
    /\ call.wr # <<>>
    /\ heap[call.h].min = 2000 /\ heap[call.h].max = 2000
    /\ \E h \in Handles : heap[h].max = 10000

\* C5: SetLimits(min, max) with max > 0x3FFF or min > 0x3FFF returns an error,
\* and a SetLimits that returns an error leaves every Servo's min and max as
\* they were.
C5_LimitsRange ==
    [][call'.op = "SetLimits"
         => /\ (call'.args[1] > 16383 \/ call'.args[2] > 16383) => call'.err # NoErr
            /\ call'.err # NoErr => heap' = heap]_vars

\* SetLimits refused a min above 0x3FFF that the ordering check let through
C5_Witness ==
    /\ call.op = "SetLimits"
    /\ call.args[1] > 16383
    /\ call.args[2] <= call.args[1]
    /\ call.err # NoErr

\* C6: SetLimits(min, max) returns an error and changes nothing when max > min,
\* and stores both bounds when max <= min and min <= 0x3FFF; after a
\* successful SetLimits the Servo's bounds satisfy max <= min.
C6_LimitsOrder ==
    [][call'.op = "SetLimits"
         => LET min == call'.args[1]
                max == call'.args[2]
                h == call'.h
            IN /\ max > min => (call'.err # NoErr /\ heap' = heap)
               /\ (max <= min /\ min <= 16383)
                    => /\ call'.err = NoErr
                       /\ heap' = [heap EXCEPT ![h].min = min, ![h].max = max]
               /\ call'.err = NoErr => heap'[h].max <= heap'[h].min]_vars

\* a SetLimits that succeeded with max below min
C6_Witness ==
    /\ call.op = "SetLimits"
    /\ call.err = NoErr
    /\ heap[call.h].max < heap[call.h].min

\* C7: checkTarget follows the limit policy: with clamp it never fails and
\* returns min below min, else max above max, else the value; without clamp it
\* fails with "target too low" below min, else with "target too high" above
\* max, else returns the value unchanged.
C7_LimitPolicy ==
    pure.fn = "checkTarget"
    => LET min == pure.in[1]
           max == pure.in[2]
           value == pure.in[3]
       IN IF pure.clamp
          THEN /\ pure.err = ""
               /\ pure.val = IF value < min THEN min
                             ELSE IF value > max THEN max
                             ELSE value
          ELSE IF value < min THEN pure.err = "target too low"
               ELSE IF value > max THEN pure.err = "target too high"
               ELSE pure.err = "" /\ pure.val = value

\* the clamp of 20000 to 10000 under the bounds 2000..10000
C7_Witness ==
    /\ pure.fn = "checkTarget"
    /\ pure.in = <<2000, 10000, 20000>>
    /\ pure.clamp
    /\ pure.val = 10000
    /\ pure.err = ""

\* every registered channel holds a Servo of that channel
C8_SlotChannel ==
    \A i \in 0..23 : servo[i] # 0 => (servo[i] \in Handles /\ heap[servo[i]].channel = i)

\* what a NewServo step does
C8_NewServoStep ==
    call'.op = "NewServo"
    => LET ch == call'.args[1]
           h == call'.h
       IN IF ch >= 24
          THEN call'.err # "" /\ servo' = servo /\ heap' = heap
          ELSE /\ call'.err = ""
               /\ h = Len(heap) + 1
               /\ heap' = Append(heap, [channel |-> ch, min |-> 2000, max |-> 10000,
                                        clamp |-> FALSE])
               /\ servo'[ch] = h
               /\ \A c \in 0..23 : c # ch => servo'[c] = servo[c]

\* C8: NewServo(index) fails and changes nothing exactly when index >= 24;
\* otherwise it puts in slot index a new Servo of that channel with bounds
\* 2000 and 10000 and the reject policy, leaving the other slots alone; so
\* every occupied slot i holds a Servo whose channel is i.
C8_Registration == []C8_SlotChannel /\ [][C8_NewServoStep]_vars

\* NewServo replaced the Servo of an occupied slot
C8_Witness ==
    /\ call.op = "NewServo"
    /\ call.err = ""
    /\ \E h \in Handles : h # call.h /\ heap[h].channel = call.args[1]
    /\ servo[call.args[1]] = call.h

\* the frame SetTarget writes for a checked value
C9_Frame(s, v) ==
    LET body == (IF compact THEN <<132, s.channel>> ELSE <<170, device, 4, s.channel>>)
                    \o <<v % 128, (v \div 128) % 128>>
    IN IF crc THEN Append(body, crc7(0, body) % 128) ELSE body

\* C9: SetTarget returns checkTarget's error and writes nothing when checkTarget
\* fails; otherwise it writes exactly one frame: the channel-qualified preamble
\* of opcode 0x84, the low and high 7-bit bytes of the checked value, and the
\* checksum byte when enabled.
C9_SetTarget ==
    call.op = "SetTarget"
    => LET r == checkTarget(heap[call.h], call.args[1])
       IN IF r.err # ""
          THEN call.err = r.err /\ call.wr = <<>>
          ELSE call.wr = <<C9_Frame(heap[call.h], r.val)>>

\* an addressed, checksummed SetTarget frame was written
C9_Witness ==
    /\ call.op = "SetTarget"
    /\ Len(call.wr) = 1
    /\ Len(call.wr[1]) = 7
    /\ call.err = ""

C11_NeverClamp == \A h \in Handles : ~heap[h].clamp

\* C11 as stated: the policy of a registered Servo can be changed by a public
\* operation, that is, whenever a call can be made on a Servo, some operation
\* leaves that Servo with the clamp policy.
C11_PolicyMutable ==
    (Ready /\ Handles # {})
    => ENABLED (Next /\ \E h \in Handles : heap'[h].clamp)

\* the length of the frame of the most recent call before any checksum byte
C12_BodyLen ==
    OpIndex +
    CASE call.op \in {"RestartScript", "GetPosition"} -> 1
      [] call.op \in {"RestartScriptParms", "SetTarget", "SetSpeed", "SetAcceleration"} -> 3
      [] call.op = "SetPWM" -> 5
      [] call.op = "SetTargets" -> 2 + (2 * Len(call.targets))
      [] OTHER -> 0

\* a written frame carries its checksum: one byte more than the frame, equal
\* to crc7(0, frame) & 0x7F, when checksum mode is on, and nothing otherwise
C12_Framed(f, bodyLen) ==
    IF crc
    THEN /\ Len(f) = bodyLen + 1
         /\ f[Len(f)] = crc7(0, SubSeq(f, 1, bodyLen)) % 128
    ELSE Len(f) = bodyLen

\* C12 as stated: every write of the session, the one made at controller
\* creation included, is the frame followed by its checksum byte when checksum
\* mode is on.
C12_EveryWriteFramed ==
    \A f \in Written :
        C12_Framed(f, IF call.op = "NewController" THEN 1 ELSE C12_BodyLen)

\* C12, amended: every frame a Controller or Servo command writes is the
\* frame followed by one byte crc7(0, frame) & 0x7F when checksum mode is on,
\* and the bare frame when it is off; the auto-baud byte written at controller
\* creation is the single byte 0xAA in both modes, with no checksum byte.
C12_CommandsFramed ==
    IF call.op = "NewController"
    THEN call.wr = << <<170>> >>
    ELSE \A f \in Written : C12_Framed(f, C12_BodyLen)

\* a checksummed command frame of three payload bytes was written
C12_Witness ==
    /\ call.op = "RestartScriptParms"
    /\ crc
    /\ ~compact
    /\ Len(call.wr) = 1
    /\ Len(call.wr[1]) = 7

\* the opcode of each command
C13_Opcode ==
    CASE call.op = "SetTarget" -> 132
      [] call.op = "SetSpeed" -> 135
      [] call.op = "SetAcceleration" -> 137
      [] call.op = "SetPWM" -> 138
      [] call.op = "GetPosition" -> 144
      [] call.op = "GetMovingState" -> 147
      [] call.op = "SetTargets" -> 159
      [] call.op = "GetErrors" -> 161
      [] call.op = "GoHome" -> 162
      [] call.op = "StopScript" -> 164
      [] call.op = "RestartScript" -> 167
      [] call.op = "RestartScriptParms" -> 168
      [] call.op = "GetScriptStatus" -> 174

C13_ServoOps == {"SetTarget", "SetSpeed", "SetAcceleration", "SetPWM", "GetPosition"}

\* C13: every command frame starts with exactly [opcode] in compact mode and
\* exactly [0xAA, device, opcode & 0x7F] in addressed mode; a channel-qualified
\* command has exactly one channel byte, its Servo's channel, right after it,
\* and the payload follows.
C13_PreambleShape ==
    call.op # "NewController"
    => \A f \in Written :
          LET pre == IF compact THEN <<C13_Opcode>>
                     ELSE <<170, device, C13_Opcode % 128>>
          IN /\ SubSeq(f, 1, Len(pre)) = pre
             /\ Len(pre) = OpIndex
             /\ call.op \in C13_ServoOps
                  => /\ f[Len(pre) + 1] = heap[call.h].channel
                     /\ Len(f) = Len(pre) + 1
                                   + (CASE call.op = "GetPosition" -> 0
                                        [] call.op = "SetPWM" -> 4
                                        [] OTHER -> 2)
                                   + (IF crc THEN 1 ELSE 0)
             /\ call.op \in {"GetMovingState", "GetErrors", "GoHome", "StopScript",
                             "GetScriptStatus"}
                  => Len(f) = Len(pre) + (IF crc THEN 1 ELSE 0)

\* the addressed preamble of device 12 and opcode 0x84, on channel 23
C13_Witness ==
    /\ call.op = "SetTarget"
    /\ Len(call.wr) = 1
    /\ SubSeq(call.wr[1], 1, 4) = <<170, 12, 4, 23>>

\* the low and high bytes of the checked values of targets[i..], in order
RECURSIVE C14_Values(_, _, _)
C14_Values(start, targets, i) ==
    IF i > Len(targets) THEN <<>>
    ELSE LET v == checkTarget(heap[servo[start + i - 1]], targets[i]).val
         IN <<v % 128, (v \div 128) % 128>> \o C14_Values(start, targets, i + 1)

\* the frame of SetTargets(start, targets)
C14_Frame(start, targets) ==
    LET body == (IF compact THEN <<159>> ELSE <<170, device, 31>>)
                    \o <<Len(targets), start>>
                    \o C14_Values(start, targets, 1)
    IN IF crc THEN Append(body, crc7(0, body) % 128) ELSE body

\* C14: a SetTargets with non-empty values that returns no error has made
\* exactly one write: the preamble of opcode 0x9F, the count byte len(values),
\* the start channel, the low and high 7-bit bytes of each checked value in
\* order, and the checksum byte when enabled; the count is at most 24.
C14_SetTargetsFrame ==
    (call.op = "SetTargets" /\ call.targets # <<>>)
    => /\ call.err = "" => call.wr # <<>>
       /\ call.wr # <<>>
            => /\ call.wr = <<C14_Frame(call.args[1], call.targets)>>
               /\ Len(call.targets) <= 24

\* two different values written in one frame
C14_Witness ==
    /\ call.op = "SetTargets"
    /\ call.err = ""
    /\ Len(call.targets) = 2
    /\ call.targets[1] # call.targets[2]
    /\ Len(call.wr) = 1

\* C15: SetTargets with no values returns no error for every start channel,
\* writes and reads nothing, and leaves the servo table and every Servo as
\* they were.
C15_EmptyNoOp ==
    [][(call'.op = "SetTargets" /\ call'.targets = <<>>)
         => /\ call'.err = ""
            /\ call'.wr = <<>>
            /\ call'.rd = <<>>
            /\ servo' = servo
            /\ heap' = heap]_vars

\* an empty batch at a start channel that is out of range
C15_Witness ==
    /\ call.op = "SetTargets"
    /\ call.targets = <<>>
    /\ call.args[1] >= 24
    /\ call.err = ""
    /\ call.wr = <<>>

\* the names of the bits i..8 (0-based) set in val, joined by commas
RECURSIVE C16_Text(_, _)
C16_Text(val, i) ==
    IF i > 8 THEN ""
    ELSE LET name == <<"serial signal error", "serial overrun error",
                       "serial buffer full", "serial crc error",
                       "serial protocol error", "serial timeout",
                       "script stack error", "script call stack error",
                       "script program counter error">>[i + 1]
             rest == C16_Text(val, i + 1)
         IN IF (val \div (2 ^ i)) % 2 = 0 THEN rest
            ELSE IF rest = "" THEN name
            ELSE name \o "," \o rest

\* C16: GetError returns nil exactly when none of the bits 0..8 is set, and
\* otherwise an error whose text is the names of exactly the set bits among
\* 0..8 in ascending bit order, joined by commas; bits 9..15 do not contribute.
C16_ErrorBitmap ==
    pure.fn = "GetError"
    => LET val == pure.in[1]
       IN /\ (pure.err = "") <=> (val % 512 = 0)
          /\ pure.err = C16_Text(val % 512, 0)

\* the bitmap 0x0003
C16_Witness ==
    /\ pure.fn = "GetError"
    /\ pure.in = <<3>>
    /\ pure.err = "serial signal error,serial overrun error"

\* C17: lo(v) = v & 0x7F and hi(v) = (v >> 7) & 0x7F are both below 0x80;
\* for v in 0..0x3FFF, lo(v) + (hi(v) << 7) = v, and for a larger v the pair
\* decodes to v mod 2^14.
C17_RoundTrip ==
    pure.fn = "lohi"
    => LET v == pure.in[1]
           l == pure.out[1]
           h == pure.out[2]
       IN /\ l = v % 128 /\ l < 128
          /\ h = (v \div 128) % 128 /\ h < 128
          /\ l + h * 128 = v % 16384
          /\ v <= 16383 => l + h * 128 = v

\* a value of the 14-bit range with both halves non-zero
C17_Witness ==
    /\ pure.fn = "lohi"
    /\ pure.in = <<5000>>
    /\ pure.out = <<8, 39>>

\* a value above 0x3FFF loses its upper bits
C17_WitnessWide ==
    /\ pure.fn = "lohi"
    /\ pure.in = <<20000>>
    /\ pure.out[1] + pure.out[2] * 128 = 3616

\* one round: if the low bit is set then xor 0x91; shift right by one
C18_Round(x) == (IF x % 2 = 1 THEN Xor(x, 145) ELSE x) \div 2

C18_Entry(i) ==
    C18_Round(C18_Round(C18_Round(C18_Round(
    C18_Round(C18_Round(C18_Round(C18_Round(i))))))))

\* the left fold acc := table[acc xor b] over the bytes k..Len(bytes)
RECURSIVE C18_Fold(_, _, _)
C18_Fold(acc, bytes, k) ==
    IF k > Len(bytes) THEN acc
    ELSE C18_Fold(C18_Entry(Xor(acc, bytes[k])), bytes, k + 1)

C18_TableOk == \A i \in 0..255 : crcTable[i] = C18_Entry(i) /\ crcTable[i] < 128

\* C18: crc7(previous, bytes) is the left fold acc := table[acc xor b] over
\* bytes from previous, table[i] being 8 rounds of (xor 0x91 if the low bit is
\* set; shift right 1) applied to i; crc7(0, empty) = 0; every table entry, and
\* so every checksum of a non-empty sequence, is below 0x80.
C18_Checksum ==
    pure.fn = "crc7"
    => LET previous == Head(pure.in)
           bytes == Tail(pure.in)
       IN /\ C18_TableOk
          /\ pure.val = C18_Fold(previous, bytes, 1)
          /\ (previous = 0 /\ bytes = <<>>) => pure.val = 0
          /\ bytes # <<>> => pure.val < 128

\* the checksum 0x17 of the bytes 0x83 0x01 from seed 0
C18_Witness ==
    /\ pure.fn = "crc7"
    /\ pure.in = <<0, 131, 1>>
    /\ pure.val = 23

\* the empty sequence from seed 0
C18_WitnessEmpty ==
    /\ pure.fn = "crc7"
    /\ pure.in = <<0>>
    /\ pure.val = 0

\* the commands that expect a reply
C19_ReplyBearing == {"GetMovingState", "GetErrors", "GetScriptStatus", "GetPosition"}

\* C19: every call performs at most one transport write and at most one read;
\* a reply-bearing command reads once, and only when its one write succeeded:
\* when the write fails the call returns that error with no read performed;
\* the other commands never read.
C19_WriteThenRead ==
    /\ Len(call.wr) <= 1
    /\ Len(call.rd) <= 1
    /\ call.rd # <<>> => (Len(call.wr) = 1 /\ call.err # WriteErr)
    /\ call.op \in C19_ReplyBearing
         => /\ Len(call.wr) = 1
            /\ IF call.err = WriteErr THEN call.rd = <<>>
               ELSE /\ Len(call.rd) = 1
                    /\ call.err = rspRead(call.rd[1])
    /\ call.op \notin C19_ReplyBearing => call.rd = <<>>

\* a reply-bearing command whose write failed
C19_Witness ==
    /\ call.op \in C19_ReplyBearing
    /\ call.err = WriteErr
    /\ Len(call.wr) = 1
    /\ call.rd = <<>>

\* a reply-bearing command whose read failed after a good write
C19_WitnessRead ==
    /\ call.op \in C19_ReplyBearing
    /\ call.err = ReadErr
    /\ Len(call.wr) = 1
    /\ Len(call.rd) = 1

\* the channel the i-th target of the SetTargets call goes to
C20_Chan(i) == (call.args[1] + i - 1) % 256

\* the target was accepted: the call succeeded or got as far as writing
C20_Accepted == call.err = NoErr \/ call.wr # <<>>

\* a Servo whose bounds were stored by a successful SetLimits
C20_Limited(s) == s.max <= s.min

\* what SetTarget on the Servo s with the target v may do
C20_Locked(s, v) ==
    /\ (C20_Limited(s) /\ C20_Accepted) => (v = s.min /\ v = s.max)
    /\ s.max < s.min => (call.err \in {TooLow, TooHigh} /\ call.wr = <<>>)

\* the bounds of a Servo are the defaults or those of a successful SetLimits,
\* and every Servo is in reject policy
C20_Bounds ==
    \A h \in Handles :
        /\ ~heap[h].clamp
        /\ \/ heap[h].min = 2000 /\ heap[h].max = 10000
           \/ C20_Limited(heap[h])

\* C20 as stated: the bounds of every limited Servo of a channel bind SetTarget
\* on it and every SetTargets covering the channel.
C20_AnyServoOfChannel ==
    /\ C20_Bounds
    /\ call.op = "SetTarget" => C20_Locked(heap[call.h], call.args[1])
    /\ (call.op = "SetTargets" /\ C20_Accepted)
       => \A i \in 1..Len(call.targets) :
            \A h \in Handles :
               (heap[h].channel = C20_Chan(i) /\ C20_Limited(heap[h]))
               => (call.targets[i] = heap[h].min /\ call.targets[i] = heap[h].max)

\* C20: after a successful SetLimits(min, max) on a Servo, SetTarget(v) on it,
\* and a SetTargets covering its channel while that Servo is the one registered
\* for the channel, is accepted only if v = min = max; with max < min stored,
\* every target is rejected and neither call writes anything.
C20_LimitsLock ==
    /\ C20_Bounds
    /\ call.op = "SetTarget" => C20_Locked(heap[call.h], call.args[1])
    /\ (call.op = "SetTargets" /\ call.targets # <<>>)
       => \A i \in 1..Len(call.targets) :
            (C20_Chan(i) < 24 /\ servo[C20_Chan(i)] # 0)
            => LET s == heap[servo[C20_Chan(i)]]
               IN /\ (C20_Limited(s) /\ C20_Accepted)
                       => (call.targets[i] = s.min /\ call.targets[i] = s.max)
                  /\ s.max < s.min => (call.err # NoErr /\ call.wr = <<>>)

\* a SetTargets written for a channel whose registered Servo has min = max
C20_Witness ==
    /\ call.op = "SetTargets"
    /\ call.err = NoErr
    /\ call.wr # <<>>
    /\ \E i \in 1..Len(call.targets) :
          /\ servo[C20_Chan(i)] # 0
          /\ heap[servo[C20_Chan(i)]].min = heap[servo[C20_Chan(i)]].max

\* a SetTarget rejected by a Servo with max < min
C20_WitnessRejected ==
    /\ call.op = "SetTarget"
    /\ heap[call.h].max < heap[call.h].min
    /\ call.err = TooHigh
    /\ call.wr = <<>>

\* SetTargets(channel, targets) passes its checks under the slot table sv and
\* the Servo objects hp
C21_Accepts(sv, hp, channel, targets) ==
    \A i \in 1..Len(targets) :
        LET ch == (channel + i - 1) % 256
        IN /\ ch < 24
           /\ sv[ch] # 0
           /\ hp[sv[ch]].min <= targets[i]
           /\ targets[i] <= hp[sv[ch]].max

\* the handle h is not the Servo registered for its channel
C21_Replaced(h) == servo[heap[h].channel] # h

\* SetTargets is decided by the registered Servos alone, SetTarget by the
\* Servo of its handle alone
C21_Governs ==
    /\ (call.op = "SetTargets" /\ call.targets # <<>>)
       => /\ call.wr # <<>> <=> C21_Accepts(servo, heap, call.args[1], call.targets)
          /\ call.wr = <<>> => call.err # ""
    /\ call.op = "SetTarget"
       => LET s == heap[call.h]
              v == call.args[1]
          IN /\ call.wr # <<>> <=> (s.min <= v /\ v <= s.max)
             /\ call.wr # <<>>
                  => /\ call.wr[1][OpIndex + 1] = s.channel
                     /\ call.wr[1][OpIndex + 2] + (call.wr[1][OpIndex + 3] * 128) = v

\* a registration puts a Servo with the default bounds in the slot; bounds
\* change only by SetLimits through the Servo's own handle; SetLimits through a
\* replaced handle leaves the outcome of every SetTargets as it was
C21_Step ==
    /\ (call'.op = "NewServo" /\ call'.err = "")
       => /\ servo'[call'.args[1]] = call'.h
          /\ call'.h \notin Handles
          /\ heap'[call'.h].min = 2000 /\ heap'[call'.h].max = 10000
    /\ \A h \in Handles :
          heap'[h] # heap[h] => (call'.op = "SetLimits" /\ call'.h = h)
    /\ (call'.op = "SetLimits" /\ C21_Replaced(call'.h))
       => /\ servo' = servo
          /\ \A channel \in StartInputs, targets \in TargetSeqs :
                C21_Accepts(servo', heap', channel, targets)
                    <=> C21_Accepts(servo, heap, channel, targets)

\* C21: after NewServo(ch) is called a second time, SetTargets checks values
\* for ch only against the bounds of the newly registered Servo, which are the
\* defaults until changed through the new handle; SetLimits through the replaced
\* handle, before or after the replacement, never changes the outcome of
\* SetTargets; SetTarget through the replaced handle still writes frames for ch
\* under that handle's own bounds.
C21_SlotGoverns == []C21_Governs /\ [][C21_Step]_vars

\* a SetTargets written for a channel with a value that a replaced Servo of
\* that channel rejects
C21_Witness ==
    /\ call.op = "SetTargets"
    /\ call.wr # <<>>
    /\ \E h \in Handles, i \in 1..Len(call.targets) :
          /\ heap[h].channel = (call.args[1] + i - 1) % 256
          /\ C21_Replaced(h)
          /\ heap[h].max < call.targets[i]

\* a SetTarget through a replaced handle wrote a value that the registered
\* Servo of the channel rejects
C21_WitnessOld ==
    /\ call.op = "SetTarget"
    /\ call.wr # <<>>
    /\ C21_Replaced(call.h)
    /\ heap[servo[heap[call.h].channel]].max < call.args[1]

\* a SetLimits through a replaced handle stored its bounds
C21_WitnessLimits ==
    /\ call.op = "SetLimits"
    /\ call.err = ""
    /\ C21_Replaced(call.h)
    /\ heap[call.h].max = call.args[2]
    /\ heap[call.h].max < 10000

====
